---- MODULE Spec2Model ----
(***************************************************************************)
(* Streaming replication pipeline of scripts/copy_trader_stream.js: the    *)
(* bootstrap pull, the reconcile loop, the debounced activity refresh, the *)
(* seen-set, the counting semaphore, the book cache and the trade          *)
(* processor.                                                              *)
(*                                                                         *)
(* Units.  Prices are integers in thousandths (0.01 is 10, 0.99 is 990),   *)
(* so rounding to two decimals is not the identity.  Clock values are      *)
(* integers in ticks; the knobs of parseArgs are scaled to a few ticks.    *)
(* The feed gives a trade's timestamp in seconds or in milliseconds:       *)
(* values below TsSecLimit are seconds, one second being SecMs ticks.      *)
(*                                                                         *)
(* Scheduling.  Node runs one callback (timer, socket, child process) to   *)
(* completion and then drains the promise job queue before the next        *)
(* callback.  A task whose pc is "woken", "book" or "settle" has a promise *)
(* job pending; the actions rooted in a callback are enabled only when no  *)
(* job is pending (CallbackReady).                                         *)
(*                                                                         *)
(* Spec is the whole engine.  SpecRefresh, SpecPulls, SpecTrade, SpecBook,  *)
(* SpecSizing, SpecExec, SpecTracked, SpecHalt, SpecSession, SpecTob,      *)
(* SpecEvents, SpecFocus and SpecSample run the same actions in smaller    *)
(* environments, each around one part of the pipeline; SpecSessionFair,    *)
(* SpecFlush and SpecSem add the scheduling of jobs, timers and child      *)
(* processes.  SpecLatency calls recordLatency                             *)
(* alone, and SpecArgs applies parseArgs to command lines, with the knobs  *)
(* in the code's own units (milliseconds and seconds).  Book levels are    *)
(* numbers or absent (NULL); the feed's items are objects.                 *)
(***************************************************************************)
EXTENDS Integers, Sequences, FiniteSets, TLC

\* ---------------------------------------------------------------- bounds
\* The clock runs from StartMs to StartMs + MaxTicks.
MaxTicks == 4
\* Longest activity response the data API returns.
MaxResp == 2
\* Tasks handed to Semaphore.run in one run of the engine.
MaxTasks == 3
\* Activity pulls the refresh pipeline starts in one run of the engine.
MaxPulls == 3
\* The clock of a session with reconnects runs to StartMs + MaxSessionTicks.
MaxSessionTicks == 8
\* Calls of recordLatency in a run of the latency buffer alone.
MaxRecorded == 20

\* ------------------------------------------------------ program constants
StartMs == 100
TsSecLimit == 60
SecMs == 2
NULL == -1000
MinReconcileSeconds == 2
ReconnectSeconds == 3
\* this.maxSamples (5,000), scaled as the knobs are.
MaxSamples == 4

\* ---------------------------------------------------------------- helpers
Max2(a, b) == IF a >= b THEN a ELSE b
Min2(a, b) == IF a <= b THEN a ELSE b

\* Map.set(k, v) on a function whose domain is the set of keys present.
MapSet(m, k, v) == [x \in DOMAIN m \cup {k} |-> IF x = k THEN v ELSE m[x]]
EmptyMap == [x \in {} |-> 0]

normalizeTsMs(v) ==
  IF v <= 0 THEN 0
  ELSE IF v < TsSecLimit THEN v * SecMs ELSE v

itemKey(it) == <<it.transactionHash, it.asset, it.side, it.timestamp, it.price, it.size>>

\* Math.round(px * 100) / 100 on a price in thousandths (half rounds up).
Round2(p) == ((p + 5) \div 10) * 10

VARIABLES
  argv,                \* the --profile and tuning flags of process.argv, where
                       \* parseArgs is run; no flags where cfg is given
  cfg,                 \* the configuration record parseArgs returns
  activity,            \* the source's trades as the data API knows them: id -> TradeItem
  bookDom,             \* <<bestBid, bestAsk>> pairs the exchange may report
  lagDom,              \* ages of the timestamp a last_trade_price event may carry
  now,                 \* Date.now()
  phase,               \* "main" before parseArgs; where start() is: "new" |
                       \* "resolving" | "starting" | "running"; or "exited"
  stopped,             \* this.stopped
  ws,                  \* "none" | "connecting" | "open" | "closed"
  subscribed,          \* the assets_ids of the last MARKET message sent on this.ws
  frames,              \* the MARKET messages sent on this.ws so far
  reconnectTimer,      \* the close handler's setTimeout(loop): due time, or 0
  sockets,             \* the WebSocket objects connectWS has made so far
  exitCode,            \* the code of process.exit, 0 while the process runs
  latencySamples,      \* this.latencySamples; a sample is the number of its call
  recorded,            \* the calls of recordLatency so far
  summaries,           \* the calls after which recordLatency printed a summary
  reconcileErrors,     \* the [reconcile] errors logged so far
  seen,                \* this.seen
  trackedAssets,       \* this.trackedAssets
  lastAssetRefreshMs,  \* this.lastAssetRefreshMs
  books,               \* this.books
  sem,                 \* this.sem: [max, active, q]
  tasks,               \* the calls of Semaphore.run, in call order
  pendingAssets,       \* this.pendingAssets
  pendingMetaByAsset,  \* this.pendingMetaByAsset
  refreshTimer,        \* this.refreshTimer
  refreshTimeouts,     \* the timeouts of requestActivityRefresh that are pending
  refreshInFlight,     \* this.refreshInFlight
  lastActivityFetchMs, \* this.lastActivityFetchMs
  lastActivityItems,   \* this.lastActivityItems
  fetches,             \* activity fetches awaiting their HTTP response
  reconcileTimer,      \* the reconcile loop's setTimeout: due time, or 0
  lastBookEvent,       \* per asset, the last WS book event handled
  pulls,               \* start times of the refresh pipeline's activity fetches
  flightTrigger,       \* a refresh trigger arrived during the pull in flight
  bootKeys,            \* the identity keys the bootstrap pull returned
  bootAt               \* Date.now() as bootstrap read it

envVars == <<argv, cfg, activity, bookDom, lagDom>>
runVars == <<now, phase, stopped, ws>>
wsVars == <<subscribed, frames, reconnectTimer, sockets>>
latVars == <<latencySamples, recorded, summaries>>
procVars == <<exitCode, latVars>>
logVars == <<reconcileErrors>>
dedupVars == <<seen, trackedAssets, lastAssetRefreshMs>>
taskVars == <<sem, tasks>>
refreshVars == <<pendingAssets, pendingMetaByAsset, refreshTimer, refreshTimeouts, refreshInFlight,
                 lastActivityFetchMs, lastActivityItems, pulls, flightTrigger>>
bookVars == <<books, lastBookEvent>>
bootVars == <<bootKeys, bootAt>>
vars == <<envVars, procVars, logVars, bootVars, runVars, wsVars, dedupVars, taskVars, refreshVars, bookVars,
          fetches, reconcileTimer>>

\* ------------------------------------------------------------ environment
\* The configuration parseArgs returns with no flags but those named here.
\* The knobs are in ticks; a second is SecMs ticks.
\* --book-ttl-ms 2 (profile fast: at least 6 tasks in parallel, HTTP book
\* fallback on).
FastCfg ==
  [source |-> "@src", mode |-> "paper", profile |-> "fast", sizeMode |-> "percent",
   myBalanceUsdc |-> 1, sourceBalanceUsdc |-> 2, fixedOrderUsdc |-> 1000,
   minPrice |-> 10, maxPrice |-> 990, maxLagMs |-> 2, maxSpread |-> 30,
   crossTick |-> 10, bootstrapSeconds |-> 1, reconcileSeconds |-> 2,
   maxParallel |-> 6, minAssetRefreshMs |-> 1, refreshDebounceMs |-> 2,
   activityCacheMs |-> 2, bookHttpFallback |-> TRUE, bookTtlMs |-> 2,
   liveExec |-> "python-bridge", pythonBin |-> "python3", statsEvery |-> 2]
\* --profile turbo --max-parallel 1 (profile turbo: HTTP book fallback off,
\* book TTL of 8 seconds or more).
TurboCfg ==
  [FastCfg EXCEPT !.profile = "turbo", !.maxParallel = 1,
                  !.bookHttpFallback = FALSE, !.bookTtlMs = 16]

\* ------------------------------------------------------------- parseArgs
\* The flags parseArgs reads, as the values Number() and the strings give;
\* NULL or "" for a flag that is not on the command line.
NoFlags ==
  [profile |-> "", maxParallel |-> NULL, minAssetRefreshMs |-> NULL,
   refreshDebounceMs |-> NULL, activityCacheMs |-> NULL, reconcileSeconds |-> NULL,
   bookHttpFallback |-> "", bookTtlMs |-> NULL, tradeFetchLimit |-> NULL]

\* The object parseArgs starts from, in the code's units (ms, seconds;
\* prices in thousandths).
Defaults ==
  [source |-> "", mode |-> "paper", profile |-> "fast", sizeMode |-> "percent",
   myBalanceUsdc |-> 100, sourceBalanceUsdc |-> 20000, fixedOrderUsdc |-> 1,
   minPrice |-> 10, maxPrice |-> 990, maxLagMs |-> 1200, maxSpread |-> 30,
   crossTick |-> 10, bootstrapSeconds |-> 180, reconcileSeconds |-> 20,
   tradeFetchLimit |-> 80, maxParallel |-> 12, minAssetRefreshMs |-> 250,
   refreshDebounceMs |-> 120, activityCacheMs |-> 120, bookHttpFallback |-> TRUE,
   bookTtlMs |-> 3000, liveExec |-> "python-bridge", statsEvery |-> 25]

parseBool(v, dflt) ==
  CASE v \in {"1", "true", "yes", "y", "on"} -> TRUE
    [] v \in {"0", "false", "no", "n", "off"} -> FALSE
    [] OTHER -> dflt

\* applyProfile(cfg).  OrElse is v || d on numbers; Lower is
\* String(...).toLowerCase() on the profile names drawn.
applyProfile(c) ==
  LET OrElse(v, d) == IF v # 0 THEN v ELSE d
      Lower(s) == CASE s = "TURBO" -> "turbo" [] s = "FAST" -> "fast" [] OTHER -> s
      profile == Lower(IF c.profile # "" THEN c.profile ELSE "fast")
      p == [c EXCEPT !.profile = profile]
  IN IF profile = "turbo"
     THEN [p EXCEPT !.maxParallel = OrElse(@, 24),
                    !.minAssetRefreshMs = Min2(OrElse(@, 100), 100),
                    !.refreshDebounceMs = Min2(OrElse(@, 40), 40),
                    !.activityCacheMs = Min2(OrElse(@, 40), 40),
                    !.reconcileSeconds = Min2(OrElse(@, 10), 10),
                    !.bookHttpFallback = @ /\ FALSE,
                    !.bookTtlMs = Max2(OrElse(@, 8000), 8000),
                    !.tradeFetchLimit = Max2(OrElse(@, 120), 120)]
     ELSE [p EXCEPT !.maxParallel = Max2(6, OrElse(@, 12)),
                    !.minAssetRefreshMs = Min2(OrElse(@, 250), 250),
                    !.refreshDebounceMs = Min2(OrElse(@, 120), 120),
                    !.activityCacheMs = Min2(OrElse(@, 120), 120),
                    !.reconcileSeconds = Min2(OrElse(@, 20), 20)]

\* parseArgs on the flags a: the loop over argv, then applyProfile.
parseArgs(a) ==
  LET nKeys == {"maxParallel", "minAssetRefreshMs", "refreshDebounceMs",
                "activityCacheMs", "reconcileSeconds", "bookTtlMs", "tradeFetchLimit"}
      out == [k \in DOMAIN Defaults |->
                IF k \in nKeys /\ a[k] # NULL THEN a[k]
                ELSE IF k = "bookHttpFallback" /\ a[k] # "" THEN parseBool(a[k], TRUE)
                ELSE IF k = "profile" /\ a[k] # "" THEN a[k]
                ELSE Defaults[k]]
  IN applyProfile(out)

Item(h, a, s, ts, p, sz, usdc) ==
  [transactionHash |-> h, asset |-> a, side |-> s, timestamp |-> ts,
   price |-> p, size |-> sz, usdcSize |-> usdc]

\* The engine's run: an old trade and a fresh one on asset A (the fresh one
\* timestamped in seconds), and a trade on a new asset B made after start.
EngineActivity ==
  <<Item("h1", "A", "BUY", 96, 510, 5, 2000),
    Item("h2", "A", "SELL", 50, 510, 5, 0),
    Item("h3", "B", "BUY", 101, 510, 5, 2000)>>
EngineBooks == {<<500, 520>>, <<NULL, 520>>}
EngineCfgs == {[FastCfg EXCEPT !.mode = "live"], [TurboCfg EXCEPT !.mode = "live"]}

KnownAssets == {activity[i].asset : i \in DOMAIN activity} \ {""}

\* ------------------------------------------------------------- book cache
Snapshot(bid, ask, at) ==
  [bestBid |-> bid, bestAsk |-> ask,
   spread |-> IF bid # NULL /\ ask # NULL THEN ask - bid ELSE NULL,
   updatedAtMs |-> at]
NullSnapshot == [bestBid |-> NULL, bestAsk |-> NULL, spread |-> NULL, updatedAtMs |-> 0]

CacheFresh(asset) ==
  asset \in DOMAIN books /\ (now - books[asset].updatedAtMs) <= cfg.bookTtlMs

CachedOrNull(asset) == IF asset \in DOMAIN books THEN books[asset] ELSE NullSnapshot

\* getTopOfBook up to its await: TRUE when it goes on to the HTTP probe.
NeedsProbe(asset) == ~CacheFresh(asset) /\ cfg.bookHttpFallback

LastEventOf(asset) ==
  IF asset \in DOMAIN lastBookEvent THEN lastBookEvent[asset] ELSE NullSnapshot

\* ---------------------------------------------------------- trade processor
Upper(s) == CASE s = "buy" -> "BUY" [] s = "sell" -> "SELL" [] OTHER -> s

\* A call that has built no sample.
NoSample == [eventTs |-> 0, recvTs |-> 0, decisionTs |-> 0, submitTs |-> 0, ackTs |-> 0,
             ingestMs |-> 0, decisionMs |-> 0, submitMs |-> 0, ackMs |-> 0, totalMs |-> 0]

NewTask(i, reason, eventTs, recvTs) ==
  [it |-> i, reason |-> reason, metaEventTs |-> eventTs, metaRecvTs |-> recvTs,
   pc |-> "new", out |-> "none", eventTs |-> 0, recvTs |-> 0,
   cached |-> NullSnapshot, probe |-> "none",
   bestBid |-> NULL, bestAsk |-> NULL, spread |-> NULL, tobAt |-> 0,
   tobEvent |-> NullSnapshot,
   px |-> 0, srcUsdc |-> 0, copyUsdc |-> [n |-> 0, d |-> 1], shares |-> [n |-> 0, d |-> 1],
   decisionTs |-> 0, submitTs |-> 0, ackTs |-> 0, ack |-> "none",
   sample |-> NoSample]

Reject(t) == [t EXCEPT !.pc = "settle", !.out = "rejected"]

SampleFromEvent(t) ==
  [eventTs |-> t.eventTs, recvTs |-> t.recvTs, decisionTs |-> t.decisionTs,
   submitTs |-> t.submitTs, ackTs |-> t.ackTs,
   ingestMs |-> IF t.eventTs # 0 THEN t.recvTs - t.eventTs ELSE 0,
   decisionMs |-> t.decisionTs - t.recvTs,
   submitMs |-> t.submitTs - t.decisionTs,
   ackMs |-> t.ackTs - t.submitTs,
   totalMs |-> t.ackTs - t.eventTs]

\* The sample built from the telemetry of a call (both branches build the
\* same object); `eventTs || recvTs` is recvTs when eventTs is 0.
Sample(t) ==
  [eventTs |-> t.eventTs, recvTs |-> t.recvTs, decisionTs |-> t.decisionTs,
   submitTs |-> t.submitTs, ackTs |-> t.ackTs,
   ingestMs |-> IF t.eventTs # 0 THEN t.recvTs - t.eventTs ELSE 0,
   decisionMs |-> t.decisionTs - t.recvTs,
   submitMs |-> t.submitTs - t.decisionTs,
   ackMs |-> t.ackTs - t.submitTs,
   totalMs |-> t.ackTs - (IF t.eventTs # 0 THEN t.eventTs ELSE t.recvTs)]

WithSample(t) == [t EXCEPT !.sample = Sample(t)]

LagTooLargeNever(eventTs, recvTs) == FALSE

LagTooLarge(eventTs, recvTs) == eventTs # 0 /\ (recvTs - eventTs) > cfg.maxLagMs

SpreadTooWide(spread) == spread # NULL /\ spread > cfg.maxSpread

PriceInBand(p) == p >= cfg.minPrice /\ p <= cfg.maxPrice

OrderPrice(side, bestBid, bestAsk) ==
  LET raw == IF side = "BUY"
             THEN Min2(cfg.maxPrice, bestAsk + cfg.crossTick)
             ELSE Max2(cfg.minPrice, bestBid - cfg.crossTick)
  IN Max2(cfg.minPrice, Min2(cfg.maxPrice, Round2(raw)))

SourceUsdc(it, px) ==
  IF it.usdcSize > 0 THEN it.usdcSize
  ELSE IF it.size > 0 THEN it.size * px ELSE 0

\* copyUsdc as the exact fraction n / d.
CopyUsdc(srcUsdc) ==
  IF cfg.sizeMode = "percent"
  THEN [n |-> srcUsdc * cfg.myBalanceUsdc, d |-> cfg.sourceBalanceUsdc]
  ELSE [n |-> cfg.fixedOrderUsdc, d |-> 1]

\* copyUsdc / px as the fraction n / d; d is 0 when px is 0 (the quotient is
\* Infinity, and no number).
Shares(copy, px) == [n |-> copy.n, d |-> copy.d * px]

\* The test of line 565: any other mode takes the live branch.
PaperMode == cfg.mode = "paper"

\* processTradeItem from the value getTopOfBook returned to the dispatch.
Decide(t, snap) ==
  LET it == activity[t.it]
      side == Upper(it.side)
      got == [t EXCEPT !.bestBid = snap.bestBid, !.bestAsk = snap.bestAsk,
                       !.spread = snap.spread, !.tobAt = now,
                       !.tobEvent = LastEventOf(it.asset)]
      px == OrderPrice(side, snap.bestBid, snap.bestAsk)
      srcUsdc == SourceUsdc(it, px)
      copy == CopyUsdc(srcUsdc)
      sized == [got EXCEPT !.px = px, !.srcUsdc = srcUsdc, !.copyUsdc = copy,
                           !.shares = Shares(copy, px), !.decisionTs = now]
  IN IF SpreadTooWide(snap.spread) THEN Reject(got)
     ELSE IF side = "BUY" /\ snap.bestAsk = NULL THEN Reject(got)
     ELSE IF side # "BUY" /\ snap.bestBid = NULL THEN Reject(got)
     ELSE IF ~(srcUsdc > 0) THEN Reject([got EXCEPT !.px = px])
     ELSE IF ~(copy.n > 0) THEN Reject([got EXCEPT !.px = px, !.srcUsdc = srcUsdc])
     ELSE IF PaperMode
     THEN WithSample([sized EXCEPT !.submitTs = sized.decisionTs, !.ackTs = now,
                                   !.out = "paper", !.pc = "settle"])
     ELSE [sized EXCEPT !.submitTs = now, !.out = "live", !.pc = "exec"]

\* The samples recordLatency gets on the paper path of a call that went on to t.
PaperSamples(t) == IF t.out = "paper" THEN 1 ELSE 0

TrimNever(buf) == buf

\* recordLatency's splice: drop from the front what exceeds maxSamples.
Trim(buf) ==
  IF Len(buf) > MaxSamples
  THEN SubSeq(buf, Len(buf) - MaxSamples + 1, Len(buf))
  ELSE buf

\* recordLatency(sample); r is [samples, summaries].
recordLatency(r, sample) ==
  LET kept == Trim(Append(r.samples, sample))
  IN [samples |-> kept,
      summaries |-> IF cfg.statsEvery > 0 /\ Len(kept) % cfg.statsEvery = 0
                    THEN Append(r.summaries, sample)
                    ELSE r.summaries]

\* k calls of recordLatency (k is 0 or 1) in the step of processTradeItem.
Record(k) ==
  IF k = 0 THEN UNCHANGED latVars
  ELSE LET r == recordLatency([samples |-> latencySamples, summaries |-> summaries],
                              recorded + 1)
       IN /\ latencySamples' = r.samples
          /\ summaries' = r.summaries
          /\ recorded' = recorded + 1

\* processTradeItem from its call to its first await.
StartTask(t) ==
  LET it == activity[t.it]
      side == Upper(it.side)
      eventTs == IF t.metaEventTs # 0 THEN t.metaEventTs ELSE normalizeTsMs(it.timestamp)
      recvTs == IF t.metaRecvTs # 0 THEN t.metaRecvTs ELSE now
      tel == [t EXCEPT !.eventTs = eventTs, !.recvTs = recvTs]
      got == [tel EXCEPT !.cached = CachedOrNull(it.asset)]
  IN IF side \notin {"BUY", "SELL"} \/ it.asset = "" THEN Reject(tel)
     ELSE IF ~PriceInBand(it.price) THEN Reject(tel)
     ELSE IF LagTooLarge(eventTs, recvTs) THEN Reject(tel)
     ELSE IF NeedsProbe(it.asset) THEN [got EXCEPT !.pc = "probe"]
     ELSE [got EXCEPT !.pc = "book"]

\* -------------------------------------------------------------- semaphore
SemFullLax(s) == s.active > s.max

SemFull(s) == s.active >= s.max

\* Semaphore.run(task) from its call to its first await; st is [sem, tasks].
SemRun(st, t) ==
  IF SemFull(st.sem)
  THEN [st EXCEPT !.sem.q = Append(@, Len(st.tasks) + 1),
                  !.tasks = Append(@, [t EXCEPT !.pc = "queued"])]
  ELSE [st EXCEPT !.sem.active = @ + 1,
                  !.tasks = Append(@, StartTask(t))]

\* execLiveOrder resolves at once, with a failure, for any --live-exec but
\* python-bridge; the bridge resolves when the child process closes.
BridgeExec == cfg.liveExec = "python-bridge"

\* spawn() throws on an empty file name (--python-bin ""): the executor of
\* execLiveOrder's promise throws and the promise rejects.
SpawnThrows == BridgeExec /\ cfg.pythonBin = ""

JobPending ==
  \E i \in DOMAIN tasks :
    \/ tasks[i].pc \in {"woken", "book", "settle"}
    \/ tasks[i].pc = "exec" /\ (~BridgeExec \/ SpawnThrows)
CallbackReady == phase = "running" /\ ~JobPending

\* ------------------------------------------------------------ activity feed
Published == {i \in DOMAIN activity : normalizeTsMs(activity[i].timestamp) <= now}

SeqsUpTo(S, n) == UNION {[1..k -> S] : k \in 0..n}

\* What fetchSourceActivity may resolve to: trades made so far, newest first;
\* the feed may list a trade more than once.
Responses ==
  {r \in SeqsUpTo(Published, MaxResp) :
     \A j \in 1..(Len(r) - 1) :
       normalizeTsMs(activity[r[j]].timestamp) >= normalizeTsMs(activity[r[j + 1]].timestamp)}

\* this.refreshTimer: null (set = FALSE), or a Timeout that is pending (live)
\* or was cleared by clearTimeout (the field keeps the object).
NoTimer == [set |-> FALSE, live |-> FALSE, due |-> 0, reason |-> ""]

\* ------------------------------------------------------------------ start
\* The state the constructor leaves, in a given environment, with start() at ph.
ConstructedAt(ph, cfgs, act, bks, lags) ==
  /\ cfg \in cfgs
  /\ activity = act
  /\ bookDom = bks
  /\ lagDom = lags
  /\ now = StartMs
  /\ phase = ph
  /\ exitCode = 0
  /\ latencySamples = <<>>
  /\ recorded = 0
  /\ summaries = <<>>
  /\ reconcileErrors = 0
  /\ frames = 0
  /\ reconnectTimer = 0
  /\ sockets = 0
  /\ stopped = FALSE
  /\ ws = "none"
  /\ subscribed = {}
  /\ seen = {}
  /\ trackedAssets = {}
  /\ lastAssetRefreshMs = EmptyMap
  /\ books = EmptyMap
  /\ sem = [max |-> Max2(1, cfg.maxParallel), active |-> 0, q |-> <<>>]
  /\ tasks = <<>>
  /\ pendingAssets = {}
  /\ pendingMetaByAsset = EmptyMap
  /\ refreshTimer = NoTimer
  /\ refreshTimeouts = 0
  /\ refreshInFlight = FALSE
  /\ lastActivityFetchMs = 0
  /\ lastActivityItems = <<>>
  /\ fetches = {}
  /\ reconcileTimer = 0
  /\ lastBookEvent = EmptyMap
  /\ pulls = <<>>
  /\ flightTrigger = FALSE
  /\ bootKeys = {}
  /\ bootAt = 0

\* start() has validated the configuration and resolved the source; its
\* bootstrap pull is awaited.
Constructed(cfgs, act, bks, lags) ==
  argv = NoFlags /\ ConstructedAt("starting", cfgs, act, bks, lags)

\* main() has built the engine and start() is about to be called.
Launched(cfgs, act, bks, lags) ==
  argv = NoFlags /\ ConstructedAt("new", cfgs, act, bks, lags)

Init == Launched(EngineCfgs, EngineActivity, EngineBooks, {0, 3})

ReconcilePeriod == Max2(MinReconcileSeconds, cfg.reconcileSeconds) * SecMs

ValidConfigLax(c) == c.source # ""

\* validateConfig returns without throwing.
ValidConfig(c) ==
  /\ c.source # ""
  /\ c.sizeMode = "percent" => (c.myBalanceUsdc > 0 /\ c.sourceBalanceUsdc > 0)
  /\ c.sizeMode = "fixed" => c.fixedOrderUsdc > 0

\* main() calls start(): validateConfig, then the identity lookup is awaited;
\* a throw reaches main's catch, which exits with code 1.
StartCall ==
  /\ phase = "new"
  /\ IF ValidConfig(cfg)
     THEN phase' = "resolving" /\ exitCode' = exitCode
     ELSE phase' = "exited" /\ exitCode' = 1
  /\ UNCHANGED <<envVars, logVars, latVars, bootVars, wsVars, now, stopped, ws, dedupVars, taskVars,
                 refreshVars, bookVars, fetches, reconcileTimer>>

\* resolveSourceToWallet resolves: the bootstrap pull is awaited.
ResolveDone ==
  /\ phase = "resolving"
  /\ phase' = "starting"
  /\ UNCHANGED <<envVars, logVars, procVars, bootVars, wsVars, now, stopped, ws, dedupVars, taskVars,
                 refreshVars, bookVars, fetches, reconcileTimer>>

\* resolveSourceToWallet rejects: main's catch exits with code 1.
ResolveFail ==
  /\ phase = "resolving"
  /\ phase' = "exited"
  /\ exitCode' = 1
  /\ UNCHANGED <<envVars, logVars, latVars, bootVars, wsVars, now, stopped, ws, dedupVars, taskVars,
                 refreshVars, bookVars, fetches, reconcileTimer>>

AddTrackedOnly(tracked, asset) == IF asset # "" THEN {asset} ELSE tracked

\* this.trackedAssets.add(asset), for a non-empty asset.
AddTracked(tracked, asset) == IF asset # "" THEN tracked \cup {asset} ELSE tracked

\* bootstrap's loop over the response; st is [seen, tracked, sem, tasks].
RECURSIVE BootstrapLoop(_, _, _)
BootstrapLoop(st, resp, i) ==
  IF i > Len(resp) THEN st
  ELSE LET it == activity[resp[i]]
           ts == normalizeTsMs(it.timestamp)
           cutoff == now - cfg.bootstrapSeconds * SecMs
           st1 == [st EXCEPT !.seen = @ \cup {itemKey(it)},
                             !.tracked = AddTracked(@, it.asset)]
           st2 == IF ts # 0 /\ ts >= cutoff
                  THEN SemRun(st1, NewTask(resp[i], "bootstrap", ts, now))
                  ELSE st1
       IN BootstrapLoop(st2, resp, i + 1)

\* start(): the bootstrap pull resolves; connectWS and startReconcileLoop follow.
Bootstrap(resp) ==
  /\ phase = "starting"
  /\ LET st == BootstrapLoop([seen |-> seen, tracked |-> trackedAssets,
                              sem |-> sem, tasks |-> tasks], resp, 1)
     IN /\ Len(st.tasks) <= MaxTasks
        /\ seen' = st.seen
        /\ trackedAssets' = st.tracked
        /\ sem' = st.sem
        /\ tasks' = st.tasks
  /\ phase' = "running"
  /\ ws' = "connecting"
  /\ reconcileTimer' = now + ReconcilePeriod
  /\ bootKeys' = {itemKey(activity[resp[j]]) : j \in DOMAIN resp}
  /\ bootAt' = now
  /\ sockets' = sockets + 1
  /\ UNCHANGED <<envVars, logVars, procVars, subscribed, frames, reconnectTimer, now, stopped, lastAssetRefreshMs, refreshVars, bookVars, fetches>>

\* start(): the bootstrap pull rejects; main's catch exits the process.
BootstrapFail ==
  /\ phase = "starting"
  /\ phase' = "exited"
  /\ exitCode' = 1
  /\ UNCHANGED <<envVars, logVars, latVars, bootVars, wsVars, now, stopped, ws, dedupVars, taskVars, refreshVars, bookVars,
                 fetches, reconcileTimer>>

\* ------------------------------------------------------------ promise jobs
\* Semaphore.run resumes after its await: the woken waiter takes its slot.
ResumeJob(i) ==
  /\ tasks[i].pc = "woken"
  /\ \A j \in 1..(i - 1) : tasks[j].pc # "woken"
  /\ sem' = [sem EXCEPT !.active = @ + 1]
  /\ tasks' = [tasks EXCEPT ![i] = StartTask(tasks[i])]
  /\ UNCHANGED <<envVars, logVars, procVars, bootVars, wsVars, runVars, dedupVars, refreshVars, bookVars, fetches, reconcileTimer>>

\* processTradeItem resumes with the entry getTopOfBook read (or the null snapshot).
BookJob(i) ==
  /\ tasks[i].pc = "book"
  /\ tasks' = [tasks EXCEPT ![i] = Decide(tasks[i], tasks[i].cached)]
  /\ Record(PaperSamples(tasks'[i]))
  /\ UNCHANGED <<envVars, logVars, exitCode, bootVars, wsVars, runVars, dedupVars, sem, refreshVars, bookVars, fetches, reconcileTimer>>

ReleaseKeep(s) == s

\* Semaphore.run's finally: release the slot, wake the first waiter.
Release(s) ==
  [s EXCEPT !.active = @ - 1, !.q = IF @ = <<>> THEN @ ELSE Tail(@)]

\* A settled call: what is kept of it is the trade, the reason, the outcome
\* and the result of its order.
Settled(t) ==
  [NewTask(t.it, t.reason, 0, 0) EXCEPT !.pc = "done", !.out = t.out, !.ack = t.ack]

SettleJob(i) ==
  /\ tasks[i].pc = "settle"
  /\ sem' = Release(sem)
  /\ tasks' = [j \in DOMAIN tasks |->
                 IF j = i THEN Settled(tasks[j])
                 ELSE IF sem.q # <<>> /\ j = Head(sem.q) THEN [tasks[j] EXCEPT !.pc = "woken"]
                 ELSE tasks[j]]
  /\ UNCHANGED <<envVars, logVars, procVars, bootVars, wsVars, runVars, dedupVars, refreshVars, bookVars, fetches, reconcileTimer>>

\* --------------------------------------------------- book probe, live order
ProbeStampAtCall(t) == t.recvTs

\* The updatedAtMs of the entry a probe stores: Date.now() after the await.
ProbeStamp(t) == now

\* getTopOfBook's HTTP probe resolves: store, return, processTradeItem goes on.
ProbeDone(i, pair) ==
  /\ CallbackReady
  /\ tasks[i].pc = "probe"
  /\ LET asset == activity[tasks[i].it].asset
         out == Snapshot(pair[1], pair[2], ProbeStamp(tasks[i]))
     IN /\ books' = MapSet(books, asset, out)
        /\ tasks' = [tasks EXCEPT ![i] = Decide([tasks[i] EXCEPT !.probe = "ok"], out)]
  /\ Record(PaperSamples(tasks'[i]))
  /\ UNCHANGED <<envVars, logVars, exitCode, bootVars, wsVars, runVars, dedupVars, sem, refreshVars, lastBookEvent, fetches,
                 reconcileTimer>>

OnProbeFailNull(t) == NullSnapshot

\* getTopOfBook's catch: cached, or the null snapshot (t.cached holds either).
OnProbeFail(t) == t.cached

\* getTopOfBook's HTTP probe rejects: the entry read before the probe, or
\* the null snapshot.
ProbeFail(i) ==
  /\ CallbackReady
  /\ tasks[i].pc = "probe"
  /\ tasks' = [tasks EXCEPT ![i] = Decide([tasks[i] EXCEPT !.probe = "fail"],
                                          OnProbeFail(tasks[i]))]
  /\ Record(PaperSamples(tasks'[i]))
  /\ UNCHANGED <<envVars, logVars, exitCode, bootVars, wsVars, runVars, dedupVars, sem, refreshVars, bookVars, fetches, reconcileTimer>>

\* execLiveOrder resolves: the sample is recorded, LIVE OK or LIVE FAIL logged.
ExecDone(i, ok) ==
  /\ IF BridgeExec THEN CallbackReady ELSE ~ok
  /\ ~SpawnThrows
  /\ tasks[i].pc = "exec"
  /\ tasks' = [tasks EXCEPT ![i] = WithSample([@ EXCEPT !.ackTs = now, !.pc = "settle",
                                                        !.ack = IF ok THEN "ok" ELSE "fail"])]
  /\ Record(1)
  /\ UNCHANGED <<envVars, logVars, exitCode, bootVars, wsVars, runVars, dedupVars, sem, refreshVars, bookVars, fetches, reconcileTimer>>

ThrownPastFinally(t) == [t EXCEPT !.pc = "done", !.ack = "threw"]

\* The await of line 594 throws: processTradeItem rejects, and control passes
\* to the finally of Semaphore.run.
Thrown(t) == [t EXCEPT !.pc = "settle", !.ack = "threw"]

\* execLiveOrder rejected: no sample is recorded and nothing is logged.
ExecThrow(i) ==
  /\ SpawnThrows
  /\ tasks[i].pc = "exec"
  /\ tasks' = [tasks EXCEPT ![i] = Thrown(@)]
  /\ UNCHANGED <<envVars, logVars, procVars, bootVars, wsVars, runVars, dedupVars, sem, refreshVars, bookVars, fetches, reconcileTimer>>

\* The clock advances between callbacks (a drain of promise jobs takes no
\* tick), up to a limit.
TickTo(limit) ==
  /\ ~JobPending
  /\ now < limit
  /\ now' = now + 1
  /\ UNCHANGED <<envVars, logVars, procVars, bootVars, wsVars, phase, stopped, ws, dedupVars, taskVars, refreshVars, bookVars,
                 fetches, reconcileTimer>>

Tick == TickTo(StartMs + MaxTicks)

\* ------------------------------------------------------- debounced refresh
NoMeta == [eventTs |-> 0, recvTs |-> 0]

\* requestActivityRefresh(asset, reason, meta); r is
\* [pendingAssets, pendingMetaByAsset, refreshTimer, timeouts].
RefreshDelay(lastFetch) == Max2(0, cfg.refreshDebounceMs - (now - lastFetch))

TimerHeldNever(timer) == FALSE

\* The test of line 368: this.refreshTimer is not null.
TimerHeld(timer) == timer.set

ReqRefresh(r, asset, reason, meta, lastFetch) ==
  LET r1 == IF asset # ""
            THEN [r EXCEPT !.pendingAssets = @ \cup {asset},
                           !.pendingMetaByAsset =
                              IF asset \in DOMAIN @ THEN @ ELSE MapSet(@, asset, meta)]
            ELSE r
  IN IF TimerHeld(r1.refreshTimer) THEN r1
     ELSE [r1 EXCEPT !.refreshTimer =
             [set |-> TRUE, live |-> TRUE, due |-> now + RefreshDelay(lastFetch),
              reason |-> reason],
                     !.timeouts = @ + 1]

OutOfFocusNever(focusAssets, asset) == FALSE

\* The test of line 401; focusAssets is {} where the code has null.
OutOfFocus(focusAssets, asset) ==
  focusAssets # {} /\ asset # "" /\ asset \notin focusAssets

\* runActivityRefresh's loop over the items; st is [seen, sem, tasks].
RECURSIVE RefreshLoop(_, _, _, _, _, _)
RefreshLoop(st, items, i, focusAssets, metaByAsset, reason) ==
  IF i > Len(items) THEN st
  ELSE LET it == activity[items[i]]
           k == itemKey(it)
           m == IF it.asset \in DOMAIN metaByAsset THEN metaByAsset[it.asset] ELSE NoMeta
           eventTs == IF m.eventTs # 0 THEN m.eventTs ELSE normalizeTsMs(it.timestamp)
           recvTs == IF m.recvTs # 0 THEN m.recvTs ELSE now
           st1 == IF OutOfFocus(focusAssets, it.asset) THEN st
                  ELSE IF k \in st.seen THEN st
                  ELSE SemRun([st EXCEPT !.seen = @ \cup {k}],
                              NewTask(items[i], reason, eventTs, recvTs))
       IN RefreshLoop(st1, items, i + 1, focusAssets, metaByAsset, reason)

NeedsFlushNever(r) == FALSE

\* The test of line 421: assets are pending and the engine is not stopped.
NeedsFlush(r) == r.pendingAssets # {} /\ ~stopped

\* runActivityRefresh's finally; r as in ReqRefresh.
RefreshFinally(r, lastFetch) ==
  IF NeedsFlush(r)
  THEN ReqRefresh(r, "", "refresh-flush", NoMeta, lastFetch)
  ELSE r

\* The body of runActivityRefresh from the items on, and its finally.
RefreshBody(items, reason, timer, timeouts, lastFetch) ==
  LET st == RefreshLoop([seen |-> seen, sem |-> sem, tasks |-> tasks], items, 1,
                        pendingAssets, pendingMetaByAsset, reason)
      r == RefreshFinally([pendingAssets |-> {}, pendingMetaByAsset |-> EmptyMap,
                           refreshTimer |-> timer, timeouts |-> timeouts], lastFetch)
  IN /\ Len(st.tasks) <= MaxTasks
     /\ seen' = st.seen
     /\ sem' = st.sem
     /\ tasks' = st.tasks
     /\ pendingAssets' = r.pendingAssets
     /\ pendingMetaByAsset' = r.pendingMetaByAsset
     /\ refreshTimer' = r.refreshTimer
     /\ refreshTimeouts' = r.timeouts
     /\ refreshInFlight' = FALSE

UseCache ==
  Len(lastActivityItems) > 0 /\ (now - lastActivityFetchMs) <= cfg.activityCacheMs

RefreshFetches == {f \in fetches : f.kind = "refresh"}

RefreshBusyNever == FALSE

\* runActivityRefresh's in-flight sentinel.
RefreshBusy == refreshInFlight

\* The refresh timer fires: runActivityRefresh(reason) up to its first await.
RefreshTimerFire ==
  /\ CallbackReady
  /\ refreshTimer.set /\ refreshTimer.live /\ now >= refreshTimer.due
  /\ IF RefreshBusy
     THEN /\ refreshTimer' = NoTimer
          /\ refreshTimeouts' = refreshTimeouts - 1
          /\ UNCHANGED <<seen, taskVars, pendingAssets, pendingMetaByAsset, refreshInFlight,
                         lastActivityFetchMs, lastActivityItems, pulls, flightTrigger, fetches>>
     ELSE IF UseCache
     THEN /\ RefreshBody(lastActivityItems, refreshTimer.reason, NoTimer,
                          refreshTimeouts - 1, lastActivityFetchMs)
          /\ UNCHANGED <<lastActivityFetchMs, lastActivityItems, pulls, flightTrigger, fetches>>
     ELSE /\ Len(pulls) < MaxPulls
          /\ refreshTimer' = NoTimer
          /\ refreshTimeouts' = refreshTimeouts - 1
          /\ refreshInFlight' = TRUE
          /\ fetches' = fetches \cup {[kind |-> "refresh", id |-> Len(pulls) + 1,
                                      reason |-> refreshTimer.reason]}
          /\ pulls' = Append(pulls, now)
          /\ flightTrigger' = FALSE
          /\ UNCHANGED <<seen, taskVars, pendingAssets, pendingMetaByAsset,
                         lastActivityFetchMs, lastActivityItems>>
  /\ UNCHANGED <<envVars, logVars, procVars, bootVars, wsVars, runVars, trackedAssets, lastAssetRefreshMs, bookVars, reconcileTimer>>

\* The refresh pull resolves: the rest of the body, then the finally.
RefreshFetchDone(f, resp) ==
  /\ CallbackReady
  /\ f \in RefreshFetches
  /\ fetches' = fetches \ {f}
  /\ lastActivityItems' = resp
  /\ lastActivityFetchMs' = now
  /\ RefreshBody(resp, f.reason, refreshTimer, refreshTimeouts, now)
  /\ UNCHANGED <<envVars, logVars, procVars, bootVars, wsVars, runVars, trackedAssets, lastAssetRefreshMs, bookVars, reconcileTimer,
                 pulls, flightTrigger>>

\* The refresh pull rejects: the finally alone.
RefreshFetchFail(f) ==
  /\ CallbackReady
  /\ f \in RefreshFetches
  /\ fetches' = fetches \ {f}
  /\ LET r == RefreshFinally([pendingAssets |-> pendingAssets,
                              pendingMetaByAsset |-> pendingMetaByAsset,
                              refreshTimer |-> refreshTimer,
                              timeouts |-> refreshTimeouts], lastActivityFetchMs)
     IN /\ pendingAssets' = r.pendingAssets
        /\ pendingMetaByAsset' = r.pendingMetaByAsset
        /\ refreshTimer' = r.refreshTimer
        /\ refreshTimeouts' = r.timeouts
  /\ refreshInFlight' = FALSE
  /\ UNCHANGED <<envVars, logVars, procVars, bootVars, wsVars, runVars, dedupVars, taskVars, bookVars, reconcileTimer,
                 lastActivityFetchMs, lastActivityItems, pulls, flightTrigger>>

\* ------------------------------------------------------------- websocket
HaltedNever == FALSE

HaltedAlways == TRUE

\* this.stopped, as the reconnect loop, the close handler and the reconcile
\* run test it on entry.
Halted == stopped

\* The socket opens: the open handler subscribes the tracked assets, if any.
WSOpen ==
  /\ CallbackReady
  /\ ws = "connecting"
  /\ ws' = "open"
  /\ subscribed' = trackedAssets
  /\ frames' = IF trackedAssets = {} THEN frames ELSE frames + 1
  /\ UNCHANGED <<envVars, logVars, procVars, bootVars, reconnectTimer, sockets, now, phase, stopped, dedupVars, taskVars, refreshVars, bookVars,
                 fetches, reconcileTimer>>

\* handleWSMessage, event_type book.
WSBook(asset, pair) ==
  /\ CallbackReady
  /\ ws = "open"
  /\ asset \in subscribed
  /\ books' = MapSet(books, asset, Snapshot(pair[1], pair[2], now))
  /\ lastBookEvent' = MapSet(lastBookEvent, asset, Snapshot(pair[1], pair[2], now))
  /\ UNCHANGED <<envVars, logVars, procVars, bootVars, wsVars, runVars, dedupVars, taskVars, refreshVars, fetches, reconcileTimer>>

ClosesAgain(s) == s # "none"

\* A WebSocket fires its close event once, when it leaves CONNECTING or OPEN.
Closes(s) == s \in {"connecting", "open"}

\* The socket closes (the server or the network ends it, or the handshake
\* fails): the close handler arms the reconnect.
WSClose ==
  /\ CallbackReady
  /\ Closes(ws)
  /\ ws' = "closed"
  /\ reconnectTimer' = IF Halted THEN reconnectTimer ELSE now + ReconnectSeconds * SecMs
  /\ UNCHANGED <<envVars, logVars, procVars, bootVars, subscribed, frames, sockets, now, phase, stopped, dedupVars,
                 taskVars, refreshVars, bookVars, fetches, reconcileTimer>>

\* The reconnect timer fires: loop() makes a new socket unless stopped.
WSReconnect ==
  /\ CallbackReady
  /\ reconnectTimer # 0 /\ now >= reconnectTimer
  /\ reconnectTimer' = 0
  /\ IF Halted
     THEN UNCHANGED <<ws, subscribed, frames, sockets>>
     ELSE ws' = "connecting" /\ subscribed' = {} /\ frames' = 0 /\ sockets' = sockets + 1
  /\ UNCHANGED <<envVars, logVars, procVars, bootVars, now, phase, stopped, dedupVars, taskVars, refreshVars,
                 bookVars, fetches, reconcileTimer>>

\* Timestamps a last_trade_price event may carry: none (0), or one of a given age.
EventStamps == {0} \cup {now - lag : lag \in lagDom}

CoolingNever(last) == FALSE

\* The test of line 453: the asset's cooldown has not elapsed.
Cooling(last) == now - last < cfg.minAssetRefreshMs

\* handleWSMessage, event_type last_trade_price, for whatever asset the
\* server names.
WSLastTrade(asset, stamp) ==
  /\ CallbackReady
  /\ ws = "open"
  /\ LET last == IF asset \in DOMAIN lastAssetRefreshMs THEN lastAssetRefreshMs[asset] ELSE 0
     IN IF asset = "" \/ asset \notin trackedAssets \/ Cooling(last)
        THEN UNCHANGED <<lastAssetRefreshMs, pendingAssets, pendingMetaByAsset, refreshTimer,
                         refreshTimeouts, flightTrigger>>
        ELSE LET r == ReqRefresh([pendingAssets |-> pendingAssets,
                                  pendingMetaByAsset |-> pendingMetaByAsset,
                                  refreshTimer |-> refreshTimer,
                                  timeouts |-> refreshTimeouts],
                                 asset, "ws-trigger",
                                 [eventTs |-> normalizeTsMs(stamp), recvTs |-> now],
                                 lastActivityFetchMs)
             IN /\ lastAssetRefreshMs' = MapSet(lastAssetRefreshMs, asset, now)
                /\ pendingAssets' = r.pendingAssets
                /\ pendingMetaByAsset' = r.pendingMetaByAsset
                /\ refreshTimer' = r.refreshTimer
                /\ refreshTimeouts' = r.timeouts
                /\ flightTrigger' = (flightTrigger \/ refreshInFlight)
  /\ UNCHANGED <<envVars, logVars, procVars, bootVars, wsVars, runVars, seen, trackedAssets, taskVars, refreshInFlight,
                 lastActivityFetchMs, lastActivityItems, pulls, bookVars, fetches, reconcileTimer>>

\* ----------------------------------------------------------- reconcile loop
ReconcileFetches == {f \in fetches : f.kind = "reconcile"}

\* The reconcile timer fires: run() up to its await.
ReconcileTimerFire ==
  /\ CallbackReady
  /\ reconcileTimer # 0 /\ now >= reconcileTimer
  /\ reconcileTimer' = 0
  /\ fetches' = IF Halted THEN fetches
                ELSE fetches \cup {[kind |-> "reconcile", id |-> 0, reason |-> "reconcile"]}
  /\ UNCHANGED <<envVars, logVars, procVars, bootVars, wsVars, runVars, dedupVars, taskVars, refreshVars, bookVars>>

\* run()'s loop over the response; st is [seen, tracked, sem, tasks].
RECURSIVE ReconcileLoop(_, _, _)
ReconcileLoop(st, resp, i) ==
  IF i > Len(resp) THEN st
  ELSE LET it == activity[resp[i]]
           k == itemKey(it)
           st1 == [st EXCEPT !.tracked = AddTracked(@, it.asset)]
           st2 == IF k \in st1.seen THEN st1
                  ELSE SemRun([st1 EXCEPT !.seen = @ \cup {k}],
                              NewTask(resp[i], "reconcile", normalizeTsMs(it.timestamp), now))
       IN ReconcileLoop(st2, resp, i + 1)

ReconcileRearmNever == reconcileTimer

\* run()'s finally: setTimeout(run, period), as the due time.
ReconcileRearm == now + ReconcilePeriod

ResubscribesNever(before, after) == FALSE

\* run() added an asset and the socket is open: it sends the whole set.
Resubscribes(before, after) == after # before /\ ws = "open"

\* The reconcile pull resolves: the loop, then the finally rearms the timer.
ReconcileFetchDone(f, resp) ==
  /\ CallbackReady
  /\ f \in ReconcileFetches
  /\ fetches' = fetches \ {f}
  /\ LET st == ReconcileLoop([seen |-> seen, tracked |-> trackedAssets,
                              sem |-> sem, tasks |-> tasks], resp, 1)
     IN /\ Len(st.tasks) <= MaxTasks
        /\ seen' = st.seen
        /\ trackedAssets' = st.tracked
        /\ sem' = st.sem
        /\ tasks' = st.tasks
        /\ subscribed' = IF Resubscribes(trackedAssets, st.tracked)
                          THEN st.tracked ELSE subscribed
        /\ frames' = IF Resubscribes(trackedAssets, st.tracked) THEN frames + 1 ELSE frames
  /\ reconcileTimer' = ReconcileRearm
  /\ UNCHANGED <<envVars, logVars, procVars, bootVars, reconnectTimer, sockets, runVars, lastAssetRefreshMs, refreshVars, bookVars>>

\* The reconcile pull rejects: logged, and the finally rearms the timer.
ReconcileFetchFail(f) ==
  /\ CallbackReady
  /\ f \in ReconcileFetches
  /\ fetches' = fetches \ {f}
  /\ reconcileErrors' = reconcileErrors + 1
  /\ reconcileTimer' = ReconcileRearm
  /\ UNCHANGED <<envVars, procVars, bootVars, wsVars, runVars, dedupVars, taskVars, refreshVars, bookVars>>

\* ------------------------------------------------------------------- stop
\* stop(reason), from SIGINT or SIGTERM (benchmarkSeconds is 0).
Stop ==
  /\ CallbackReady
  /\ ~stopped
  /\ stopped' = TRUE
  /\ ws' = "closed"
  /\ refreshTimer' = IF refreshTimer.set THEN [refreshTimer EXCEPT !.live = FALSE]
                     ELSE refreshTimer
  /\ refreshTimeouts' = IF refreshTimer.set /\ refreshTimer.live
                        THEN refreshTimeouts - 1 ELSE refreshTimeouts
  /\ UNCHANGED <<envVars, logVars, procVars, bootVars, wsVars, now, phase, dedupVars, taskVars, pendingAssets, pendingMetaByAsset,
                 refreshInFlight, lastActivityFetchMs, lastActivityItems, pulls, flightTrigger,
                 bookVars, fetches, reconcileTimer>>

\* -------------------------------------------------------------------- next
DoBootstrap == \E resp \in Responses : Bootstrap(resp)
DoResumeJob == \E i \in DOMAIN tasks : ResumeJob(i)
DoBookJob == \E i \in DOMAIN tasks : BookJob(i)
DoSettleJob == \E i \in DOMAIN tasks : SettleJob(i)
DoProbeDone == \E i \in DOMAIN tasks : \E pair \in bookDom : ProbeDone(i, pair)
DoProbeFail == \E i \in DOMAIN tasks : ProbeFail(i)
DoExecDone == \E i \in DOMAIN tasks : \E ok \in BOOLEAN : ExecDone(i, ok)
DoExecThrow == \E i \in DOMAIN tasks : ExecThrow(i)
DoRefreshFetchDone == \E f \in fetches : \E resp \in Responses : RefreshFetchDone(f, resp)
DoRefreshFetchFail == \E f \in fetches : RefreshFetchFail(f)
DoWSBook == \E a \in KnownAssets : \E pair \in bookDom : WSBook(a, pair)
DoWSLastTrade == \E a \in KnownAssets : \E stamp \in EventStamps : WSLastTrade(a, stamp)
DoReconcileFetchDone == \E f \in fetches : \E resp \in Responses : ReconcileFetchDone(f, resp)
DoReconcileFetchFail == \E f \in fetches : ReconcileFetchFail(f)

Next ==
  \/ StartCall
  \/ ResolveDone
  \/ ResolveFail
  \/ DoBootstrap
  \/ BootstrapFail
  \/ DoResumeJob
  \/ DoBookJob
  \/ DoSettleJob
  \/ DoProbeDone
  \/ DoProbeFail
  \/ DoExecDone
  \/ RefreshTimerFire
  \/ DoRefreshFetchDone
  \/ DoRefreshFetchFail
  \/ WSOpen
  \/ WSClose
  \/ WSReconnect
  \/ DoWSBook
  \/ DoWSLastTrade
  \/ ReconcileTimerFire
  \/ DoReconcileFetchDone
  \/ DoReconcileFetchFail
  \/ Stop
  \/ Tick

Spec == Init /\ [][Next]_vars

\* ------------------------------------------------- the refresh pipeline alone
\* WS triggers, the debounce timer and the refresh pulls, after a bootstrap;
\* no book events arrive and the reconcile loop is left out.
RefreshActivity ==
  <<Item("h1", "A", "BUY", 50, 510, 5, 2000),
    Item("h2", "A", "SELL", 101, 510, 5, 0)>>

InitRefresh == Constructed({TurboCfg}, RefreshActivity, {}, {0})

NextRefresh ==
  \/ DoBootstrap
  \/ DoResumeJob
  \/ DoBookJob
  \/ DoSettleJob
  \/ RefreshTimerFire
  \/ DoRefreshFetchDone
  \/ DoRefreshFetchFail
  \/ WSOpen
  \/ DoWSLastTrade
  \/ Tick

SpecRefresh == InitRefresh /\ [][NextRefresh]_vars

CeilDiv(a, b) == (a + b - 1) \div b

\* C5: at most one refresh pull is in flight at any time; a timer that fires
\* while a pull is in flight starts no second one.
C5_SingleRefreshInFlight ==
  /\ Cardinality(RefreshFetches) <= 1
  /\ (RefreshFetches # {}) => refreshInFlight

\* A trigger arrived during a pull, armed the timer, and the timer has fired
\* while that pull is still in flight.
C5_TimerFiredInFlight ==
  /\ RefreshFetches # {}
  /\ flightTrigger
  /\ ~refreshTimer.set

\* C6: when a pull ends and a trigger arrived while it was in flight, a
\* follow-up refresh is armed.
C6_FollowUpAfterFlightTrigger ==
  [][(refreshInFlight /\ ~refreshInFlight' /\ flightTrigger)
       => (refreshTimer'.set /\ refreshTimer'.live)]_vars

\* C7: the refresh pulls started in any window number at most
\* ceil(window / refreshDebounceMs) + 1; the window around pulls i..j is taken
\* one tick wider than the distance of their start ticks.
C7_PullRateBound ==
  \A i \in DOMAIN pulls : \A j \in DOMAIN pulls :
    i <= j => (j - i + 1) <= CeilDiv(pulls[j] - pulls[i] + 1, cfg.refreshDebounceMs) + 1

\* ------------------------------------------- dispatch from every pull source
\* Bootstrap, reconcile and refresh pulls that resolve, book events and
\* orders, with one slot in the semaphore and a per-asset cooldown that lets
\* each asset trigger one refresh; started with --live, with --paper and
\* with --mode dry.
PullsCfg == [TurboCfg EXCEPT !.mode = "live", !.maxLagMs = 4, !.minAssetRefreshMs = 8]
PullsCfgs == {PullsCfg, [PullsCfg EXCEPT !.mode = "paper"], [PullsCfg EXCEPT !.mode = "dry"]}

PullsActivity ==
  <<Item("h1", "A", "BUY", 50, 510, 5, 2000),
    Item("h2", "A", "SELL", 101, 510, 5, 0),
    Item("h3", "A", "BUY", 102, 510, 5, 2000)>>

InitPulls == Constructed(PullsCfgs, PullsActivity, {<<500, 520>>}, {})

NextPulls ==
  \/ DoBootstrap
  \/ DoResumeJob
  \/ DoBookJob
  \/ DoSettleJob
  \/ DoExecDone
  \/ RefreshTimerFire
  \/ DoRefreshFetchDone
  \/ WSOpen
  \/ DoWSBook
  \/ DoWSLastTrade
  \/ ReconcileTimerFire
  \/ DoReconcileFetchDone
  \/ Tick

SpecPulls == InitPulls /\ [][NextPulls]_vars

\* The calls of processTradeItem made so far for identity key k.
Invoked(k) ==
  {i \in DOMAIN tasks : itemKey(activity[tasks[i].it]) = k
                        /\ tasks[i].pc \notin {"queued", "woken"}}

\* The calls handed to Semaphore.run so far for identity key k.
Dispatches(k) == {i \in DOMAIN tasks : itemKey(activity[tasks[i].it]) = k}

AllKeys == {itemKey(activity[i]) : i \in DOMAIN activity}

\* C1: processTradeItem is invoked at most once for every trade identity key.
C1_AtMostOncePerKey ==
  \A k \in AllKeys : Cardinality(Invoked(k)) <= 1

\* The slots of the semaphore in use: calls that run has started and whose
\* finally has not run yet.
InFlight == {i \in DOMAIN tasks : tasks[i].pc \in {"book", "probe", "exec", "settle"}}

\* C3: the trade-processing tasks started and not yet finished never number
\* more than the capacity max(1, maxParallel).
C3_InFlightWithinCapacity ==
  Cardinality(InFlight) <= Max2(1, cfg.maxParallel)

\* A live order is awaited in the only slot while a later call waits in the queue.
C3_WaiterBehindLiveOrder ==
  /\ \E i \in DOMAIN tasks : tasks[i].pc = "exec"
  /\ \E j \in DOMAIN tasks : tasks[j].pc = "queued"
  /\ Cardinality(InFlight) = Max2(1, cfg.maxParallel)

\* C9: a trade the bootstrap pull returned is dispatched exactly once, with
\* reason bootstrap, if its timestamp is within bootstrapSeconds of the
\* bootstrap, and never otherwise.
C9_BootstrapItemsOnce ==
  \A k \in bootKeys :
    LET ts == normalizeTsMs(k[4])
        inWindow == ts # 0 /\ ts >= bootAt - cfg.bootstrapSeconds * SecMs
    IN IF inWindow
       THEN /\ Cardinality(Dispatches(k)) = 1
            /\ \A i \in Dispatches(k) : tasks[i].reason = "bootstrap"
       ELSE Dispatches(k) = {}

\* The calls that reached the dispatch step and have not settled yet.
Dispatched ==
  {i \in DOMAIN tasks : tasks[i].out \in {"paper", "live"} /\ tasks[i].pc \in {"exec", "settle"}}

\* C4: the execution adapter is invoked only when the configured mode is
\* live, and never in paper mode.
C4_AdapterOnlyWhenLive ==
  \A i \in DOMAIN tasks :
    (tasks[i].pc = "exec" \/ tasks[i].out = "live") => cfg.mode = "live"

\* ------------------------------------------------------- the trade processor
\* Live dispatch with --max-price 0.995 and --max-lag-ms 2: trades in and out
\* of the price band, with and without a size, one with a lower-case side;
\* books that are tight, wide or without bids; last_trade_price events
\* stamped 3 ticks ago or not at all.
TradeCfg == [PullsCfg EXCEPT !.maxLagMs = 2, !.maxPrice = 995]

TradeActivity ==
  <<Item("h1", "A", "BUY", 50, 510, 5, 2000),
    Item("h2", "A", "sell", 101, 510, 5, 0),
    Item("h3", "A", "BUY", 102, 5, 0, 0)>>

TradeBooks == {<<970, 990>>, <<900, 990>>, <<NULL, 990>>}

InitTrade == Constructed({TradeCfg}, TradeActivity, TradeBooks, {3})

SpecTrade == InitTrade /\ [][NextPulls]_vars

C10_OrderPriceRounded ==
  \A i \in Dispatched :
    LET t == tasks[i]
        side == Upper(activity[t.it].side)
    IN /\ side = "BUY" =>
            (t.bestAsk # NULL /\ t.px = Round2(Min2(cfg.maxPrice, t.bestAsk + cfg.crossTick)))
       /\ side = "SELL" =>
            (t.bestBid # NULL /\ t.px = Round2(Max2(cfg.minPrice, t.bestBid - cfg.crossTick)))
       /\ t.px % 10 = 0
       /\ cfg.minPrice <= t.px /\ t.px <= cfg.maxPrice

\* ------------------------------------------------------------ the book cache
\* Paper dispatch with the HTTP book fallback: bootstrap and reconcile pulls,
\* book events and probes that resolve or reject.
BookActivity ==
  <<Item("h1", "A", "BUY", 50, 510, 5, 2000),
    Item("h2", "A", "SELL", 102, 510, 5, 0)>>

InitBook == Constructed({FastCfg}, BookActivity, {<<500, 520>>, <<970, 990>>}, {})

NextBook ==
  \/ DoBootstrap
  \/ DoBookJob
  \/ DoSettleJob
  \/ DoProbeDone
  \/ DoProbeFail
  \/ WSOpen
  \/ DoWSBook
  \/ ReconcileTimerFire
  \/ DoReconcileFetchDone
  \/ Tick

SpecBook == InitBook /\ [][NextBook]_vars

\* C8: a getTopOfBook call that returns within bookTtlMs of the asset's last
\* book event returns the bestBid, bestAsk and spread of that event.
C8_FreshEventReturned ==
  \A i \in DOMAIN tasks :
    LET t == tasks[i]
    IN (t.tobAt # 0 /\ t.tobEvent.updatedAtMs # 0
        /\ t.tobAt - t.tobEvent.updatedAtMs <= cfg.bookTtlMs)
       => (/\ t.bestBid = t.tobEvent.bestBid
           /\ t.bestAsk = t.tobEvent.bestAsk
           /\ t.spread = t.tobEvent.spread)

\* C14: every write of an asset's book entry, from a book event or from a
\* probe that resolved, leaves an updatedAtMs that is no less than the one it
\* replaces.
C14_UpdatedAtMonotonic ==
  [][\A a \in DOMAIN books :
       a \in DOMAIN books' /\ books'[a].updatedAtMs >= books[a].updatedAtMs]_vars

\* A probe that resolved has overwritten the entry a book event stored.
C14_ProbeWroteOverEvent ==
  \E a \in DOMAIN books :
    /\ a \in DOMAIN lastBookEvent
    /\ books[a].updatedAtMs >= lastBookEvent[a].updatedAtMs
    /\ books[a] # lastBookEvent[a]

\* ----------------------------------------------------------------- session
\* A paper session from main() to stop(): start() with a valid configuration
\* and with each invalid one, the socket closing and reconnecting, reconcile
\* pulls that resolve or reject (the source trades asset B after the start),
\* and SIGINT.
SessionCfg == [TurboCfg EXCEPT !.minAssetRefreshMs = 8]
SessionCfgs ==
  {SessionCfg,
   [SessionCfg EXCEPT !.source = ""],
   [SessionCfg EXCEPT !.myBalanceUsdc = 0],
   [SessionCfg EXCEPT !.sourceBalanceUsdc = 0],
   [SessionCfg EXCEPT !.sizeMode = "fixed", !.fixedOrderUsdc = 0]}

SessionActivity ==
  <<Item("h1", "A", "BUY", 50, 510, 5, 2000),
    Item("h2", "B", "BUY", 101, 510, 5, 2000)>>

InitSession == Launched(SessionCfgs, SessionActivity, {}, {})

SessionTick == TickTo(StartMs + MaxSessionTicks)

NextSession ==
  \/ StartCall
  \/ ResolveDone
  \/ ResolveFail
  \/ DoBootstrap
  \/ BootstrapFail
  \/ DoResumeJob
  \/ DoBookJob
  \/ DoSettleJob
  \/ WSOpen
  \/ WSClose
  \/ WSReconnect
  \/ ReconcileTimerFire
  \/ DoReconcileFetchDone
  \/ DoReconcileFetchFail
  \/ Stop
  \/ SessionTick

SpecSession == InitSession /\ [][NextSession]_vars

C18_InvalidConfigFailsFirst ==
  LET invalid ==
        \/ cfg.source = ""
        \/ cfg.sizeMode = "percent"
             /\ (~(cfg.myBalanceUsdc > 0) \/ ~(cfg.sourceBalanceUsdc > 0))
        \/ cfg.sizeMode = "fixed" /\ ~(cfg.fixedOrderUsdc > 0)
  IN invalid =>
       /\ phase \in {"new", "exited"}
       /\ phase = "exited" => exitCode # 0
       /\ seen = {} /\ trackedAssets = {}
       /\ fetches = {} /\ ws = "none" /\ sockets = 0

\* start() was called in fixed mode with --fixed-order-usdc 0 and the process
\* has exited with code 1.
C18_FixedZeroExited ==
  /\ cfg.sizeMode = "fixed" /\ cfg.fixedOrderUsdc = 0
  /\ phase = "exited"
  /\ exitCode = 1

\* The session under the engine's scheduling: the promise jobs run, time
\* passes, and a reconnect or reconcile timer that is due fires.
SpecSessionFair ==
  /\ SpecSession
  /\ WF_vars(DoResumeJob)
  /\ WF_vars(DoBookJob)
  /\ WF_vars(DoSettleJob)
  /\ WF_vars(SessionTick)
  /\ WF_vars(WSReconnect)
  /\ WF_vars(ReconcileTimerFire)

\* C15: a close while not stopped arms the reconnect 3 s ahead; an armed
\* reconnect (due within the run) leads to a new socket unless the engine is
\* stopped first; and a socket that opens sends one subscribe frame with the
\* tracked assets of that moment, or none when nothing is tracked.
C15_ReconnectAndResubscribe ==
  /\ [][/\ (ws \in {"connecting", "open"} /\ ws' = "closed" /\ ~stopped')
             => reconnectTimer' = now + ReconnectSeconds * SecMs
        /\ (ws = "connecting" /\ ws' = "open")
             => IF trackedAssets = {}
                THEN frames' = 0
                ELSE frames' = 1 /\ subscribed' = trackedAssets]_vars
  /\ (reconnectTimer # 0 /\ reconnectTimer <= StartMs + MaxSessionTicks /\ ~stopped)
       ~> (ws = "connecting" \/ stopped)

\* C20: a reconcile run whose pull resolved or rejected rearms the timer one
\* period ahead and leaves the engine running; and an armed reconcile timer
\* (due within the run) leads to another pull unless the engine is stopped.
C20_ReconcileRearms ==
  /\ [][(ReconcileFetches # {} /\ {f \in fetches' : f.kind = "reconcile"} = {})
           => /\ reconcileTimer' = now + Max2(MinReconcileSeconds, cfg.reconcileSeconds) * SecMs
              /\ phase' = "running" /\ exitCode' = 0]_vars
  /\ (reconcileTimer # 0 /\ reconcileTimer <= StartMs + MaxSessionTicks /\ ~stopped)
       ~> (ReconcileFetches # {} \/ stopped)

\* A reconcile pull rejected and, one period later, the next run's pull is
\* in flight.
C20_RunAfterFailedRun ==
  /\ reconcileErrors = 1
  /\ ReconcileFetches # {}
  /\ ~stopped

\* A second socket, made by the reconnect timer, has opened and subscribed.
C15_ReconnectedAndSubscribed ==
  /\ sockets = 2
  /\ ws = "open"
  /\ frames = 1
  /\ trackedAssets # {}
  /\ subscribed = trackedAssets

InitTracked == Constructed({SessionCfg}, SessionActivity, {}, {})

NextTracked ==
  \/ DoBootstrap
  \/ DoResumeJob
  \/ DoBookJob
  \/ DoSettleJob
  \/ RefreshTimerFire
  \/ DoRefreshFetchDone
  \/ WSOpen
  \/ WSClose
  \/ DoWSLastTrade
  \/ ReconcileTimerFire
  \/ DoReconcileFetchDone
  \/ Stop
  \/ Tick

SpecTracked == InitTracked /\ [][NextTracked]_vars

\* C12: an asset in trackedAssets stays in it, whatever step the engine takes.
C12_TrackedMonotonic == [][trackedAssets \subseteq trackedAssets']_vars

\* Bootstrap tracked one asset, a reconcile pull added the other, a refresh
\* pull ran and the engine was stopped.
C12_GrownAndStopped ==
  /\ trackedAssets = {"A", "B"}
  /\ bootKeys = {itemKey(activity[1])}
  /\ pulls # <<>>
  /\ stopped

\* ----------------------------------------------------------------- halting
\* The three loops and SIGINT on one asset: the socket closing and
\* reconnecting, WS triggers and refresh pulls, reconcile pulls.
HaltActivity == <<Item("h2", "B", "BUY", 101, 510, 5, 2000)>>

InitHalt == Constructed({SessionCfg}, HaltActivity, {}, {})

NextHalt ==
  \/ DoBootstrap
  \/ DoResumeJob
  \/ DoBookJob
  \/ DoSettleJob
  \/ RefreshTimerFire
  \/ DoRefreshFetchDone
  \/ WSOpen
  \/ WSClose
  \/ WSReconnect
  \/ DoWSLastTrade
  \/ ReconcileTimerFire
  \/ DoReconcileFetchDone
  \/ Stop
  \/ SessionTick

SpecHalt == InitHalt /\ [][NextHalt]_vars

\* C16: once stopped is true no step makes a new socket (a reconnect timer
\* armed before the stop included), starts a reconcile pull or starts a
\* refresh pull.
C16_NothingStartsAfterStop ==
  [][stopped => /\ sockets' = sockets
                /\ {f \in fetches' : f.kind = "reconcile"} \subseteq ReconcileFetches
                /\ pulls' = pulls]_vars

\* Stopped with a reconnect timer, armed before the stop, now due; the
\* reconcile loop has ended and the refresh timer was cleared.
C16_StoppedWithTimersDue ==
  /\ stopped
  /\ reconnectTimer # 0 /\ now >= reconnectTimer
  /\ reconcileTimer = 0 /\ ReconcileFetches = {}
  /\ refreshTimer.set /\ ~refreshTimer.live

\* ------------------------------------------------------------- live orders
\* Live dispatch through one slot, with the python bridge and with
\* --live-exec none: a trade older than the bootstrap window, two trades made
\* after the start that a reconcile pull finds, orders that succeed or fail,
\* and SIGINT at any point.
ExecCfgs == {PullsCfg, [PullsCfg EXCEPT !.liveExec = "none"]}

ExecActivity ==
  <<Item("h1", "A", "BUY", 48, 510, 5, 2000),
    Item("h2", "A", "SELL", 101, 510, 5, 0),
    Item("h3", "A", "BUY", 102, 510, 5, 2000)>>

InitExec == Constructed(ExecCfgs, ExecActivity, {<<500, 520>>}, {})

NextExec ==
  \/ DoBootstrap
  \/ DoResumeJob
  \/ DoBookJob
  \/ DoSettleJob
  \/ DoExecDone
  \/ WSOpen
  \/ DoWSBook
  \/ ReconcileTimerFire
  \/ DoReconcileFetchDone
  \/ Stop
  \/ Tick

SpecExec == InitExec /\ [][NextExec]_vars

\* C17: once stopped is true no latency sample is recorded: the result of an
\* order that completes after the stop is ignored.
C17_LateResultIgnored ==
  [][stopped => latencySamples' = latencySamples]_vars

\* C19: an order that failed leaves the engine running: its call ends by
\* releasing its slot and waking the first waiter, so that later trades are
\* processed.
C19_FailedOrderReleasesSlot ==
  [][\A i \in DOMAIN tasks :
       /\ (tasks[i].pc = "exec" /\ tasks'[i].pc # "exec" /\ tasks'[i].ack = "fail")
            => (tasks'[i].pc = "settle" /\ tasks'[i].out = "live"
                /\ phase' = "running" /\ exitCode' = 0 /\ stopped' = stopped)
       /\ (tasks[i].pc = "settle" /\ tasks[i].ack = "fail" /\ tasks'[i].pc # "settle")
            => (/\ tasks'[i].pc = "done"
                /\ sem'.active = sem.active - 1
                /\ sem.q # <<>> => tasks'[Head(sem.q)].pc = "woken"
                /\ phase' = "running" /\ exitCode' = 0 /\ stopped' = stopped)]_vars

\* With --live-exec none every order fails: a trade's order failed, its call
\* ended, and a trade that waited behind it went on to its own order.
C19_NextTradeAfterFailure ==
  /\ ~BridgeExec
  /\ \E i \in DOMAIN tasks : \E j \in DOMAIN tasks :
       /\ i < j
       /\ tasks[i].pc = "done" /\ tasks[i].out = "live"
       /\ tasks[j].pc \in {"exec", "settle", "done"} /\ tasks[j].out = "live"

\* ------------------------------------------------------------------ sizing
\* Paper dispatch in percent mode, in fixed mode and with --min-price 0:
\* trades that carry a notional and one that carries a size alone, on a book
\* in mid-range and on one at the low end of the range.
SizingCfgs ==
  {FastCfg, [FastCfg EXCEPT !.sizeMode = "fixed"], [FastCfg EXCEPT !.minPrice = 0]}

SizingActivity ==
  <<Item("h1", "A", "BUY", 50, 510, 5, 2000),
    Item("h2", "A", "SELL", 101, 20, 5, 2000),
    Item("h3", "A", "SELL", 102, 510, 5, 0)>>

SizingBooks == {<<500, 520>>, <<10, 30>>}

InitSizing == Constructed(SizingCfgs, SizingActivity, SizingBooks, {})

SpecSizing == InitSizing /\ [][NextBook]_vars

\* C11: for every dispatched trade srcUsdc is usdcSize when that is positive
\* and size * px otherwise; copyUsdc * sourceBalanceUsdc = srcUsdc *
\* myBalanceUsdc in percent mode and copyUsdc = fixedOrderUsdc in fixed mode;
\* shares is a number and shares * px = copyUsdc.
C11_SizingRule ==
  \A i \in Dispatched :
    LET t == tasks[i]
        it == activity[t.it]
    IN /\ t.srcUsdc = IF it.usdcSize > 0 THEN it.usdcSize ELSE it.size * t.px
       /\ cfg.sizeMode = "percent" =>
            t.copyUsdc.n * cfg.sourceBalanceUsdc = t.srcUsdc * cfg.myBalanceUsdc * t.copyUsdc.d
       /\ cfg.sizeMode = "fixed" => t.copyUsdc.n = cfg.fixedOrderUsdc * t.copyUsdc.d
       /\ t.shares.d # 0
       /\ t.shares.n * t.px * t.copyUsdc.d = t.copyUsdc.n * t.shares.d

\* ------------------------------------------------------- the book fallback
\* Paper dispatch with --book-ttl-ms 2, with the HTTP book fallback and with
\* --book-http-fallback false: book events that go stale before a reconcile
\* pull finds the next trade, probes that resolve or reject.
SpecTob ==
  /\ Constructed({FastCfg, [FastCfg EXCEPT !.bookHttpFallback = FALSE]},
                 BookActivity, {<<500, 520>>, <<NULL, 990>>}, {})
  /\ [][NextBook]_vars

\* C21: getTopOfBook never raises.  It issues a probe only when no fresh
\* entry is cached and bookHttpFallback is true; a call that issues no probe,
\* and a call whose probe fails, returns the entry that was cached when it was
\* called, stale or not, or a snapshot of nulls when there was none, and
\* leaves the cache as it is.
C21_TopOfBookFallback ==
  [][\A i \in DOMAIN tasks' :
       LET asset == activity[tasks'[i].it].asset
           before == IF i \in DOMAIN tasks THEN tasks[i].pc ELSE "new"
           entry == IF asset \in DOMAIN books
                    THEN books[asset]
                    ELSE [bestBid |-> NULL, bestAsk |-> NULL, spread |-> NULL,
                          updatedAtMs |-> 0]
           fresh == asset \in DOMAIN books
                    /\ now - books[asset].updatedAtMs <= cfg.bookTtlMs
           Returned(t, snap) ==
             /\ t.tobAt # 0
             /\ t.bestBid = snap.bestBid /\ t.bestAsk = snap.bestAsk
             /\ t.spread = snap.spread
       IN /\ (before \in {"new", "queued", "woken"} /\ tasks'[i].pc \in {"book", "probe"})
               => /\ tasks'[i].cached = entry
                  /\ tasks'[i].pc = "probe" <=> (~fresh /\ cfg.bookHttpFallback)
                  /\ books' = books
          /\ (before = "book" /\ tasks'[i].pc # "book")
               => Returned(tasks'[i], tasks[i].cached) /\ books' = books
          /\ (before = "probe" /\ tasks'[i].pc # "probe" /\ tasks'[i].probe = "fail")
               => Returned(tasks'[i], tasks[i].cached) /\ books' = books]_vars

\* With the fallback off, a call found a stale entry in the cache and got it
\* back: the trade went on to the dispatch.
C21_StaleEntryReturned ==
  /\ ~cfg.bookHttpFallback
  /\ \E i \in DOMAIN tasks :
       /\ tasks[i].pc = "settle" /\ tasks[i].out = "paper"
       /\ tasks[i].cached.updatedAtMs # 0
       /\ tasks[i].tobAt - tasks[i].cached.updatedAtMs > cfg.bookTtlMs
       /\ tasks[i].bestBid = tasks[i].cached.bestBid

\* ------------------------------------------------------ the latency buffer
\* recordLatency called MaxRecorded times, with --stats-every 0 to 5.
RecordLatencyCall ==
  /\ recorded < MaxRecorded
  /\ Record(1)
  /\ UNCHANGED <<envVars, logVars, exitCode, bootVars, wsVars, runVars, dedupVars, taskVars,
                 refreshVars, bookVars, fetches, reconcileTimer>>

SpecLatency ==
  /\ Constructed({[FastCfg EXCEPT !.statsEvery = n] : n \in 0..(MaxSamples + 1)},
                 <<>>, {}, {})
  /\ [][RecordLatencyCall]_vars

\* C22: with statsEvery = N > 0, recordLatency prints a summary at the N-th,
\* 2N-th, 3N-th ... sample recorded and at no other, also once the buffer is
\* full.
C22_SummaryEveryN ==
  [][(recorded' = recorded + 1 /\ cfg.statsEvery > 0)
       => summaries' = IF recorded' % cfg.statsEvery = 0
                       THEN Append(summaries, recorded')
                       ELSE summaries]_vars

\* C23: the buffer never holds more than maxSamples entries, and holds the
\* last min(n, maxSamples) of the n samples recorded, in recording order.
C23_RingBuffer ==
  LET held == IF recorded <= MaxSamples THEN recorded ELSE MaxSamples
  IN /\ Len(latencySamples) <= MaxSamples
     /\ latencySamples = [j \in 1..held |-> recorded - held + j]

\* More samples were recorded than the buffer holds.
C23_Wrapped == recorded > 2 * MaxSamples /\ Len(latencySamples) = MaxSamples

\* --------------------------------------------------------- the command line
\* main() calls parseArgs: --profile absent, fast, turbo or TURBO, and each
\* tuning flag absent or given, with values on both sides of the profiles'
\* limits.
ParseArgs ==
  /\ phase = "main"
  /\ cfg' = parseArgs(argv)
  /\ phase' = "new"
  /\ UNCHANGED <<argv, activity, bookDom, lagDom, logVars, procVars, bootVars, wsVars, now,
                 stopped, ws, dedupVars, taskVars, refreshVars, bookVars, fetches,
                 reconcileTimer>>

InitArgs ==
  /\ argv \in [profile : {"", "fast", "turbo", "TURBO"},
               maxParallel : {NULL, 0, 2, 16},
               minAssetRefreshMs : {NULL, 0, 50, 500},
               refreshDebounceMs : {NULL, 20, 200},
               activityCacheMs : {NULL, 20, 200},
               reconcileSeconds : {NULL, 5, 30},
               bookHttpFallback : {"", "true", "false"},
               bookTtlMs : {NULL, 1000, 9000},
               tradeFetchLimit : {NULL, 50, 200}]
  /\ ConstructedAt("main", {Defaults}, <<>>, {}, {})

SpecArgs == InitArgs /\ [][ParseArgs]_vars

\* C24: after parseArgs, each of the eight tuning flags that was given on the
\* command line has the value given, under profile fast and under profile
\* turbo.
C24_ExplicitFlagSurvives ==
  phase = "new" =>
    /\ \A k \in {"maxParallel", "minAssetRefreshMs", "refreshDebounceMs",
                  "activityCacheMs", "reconcileSeconds", "bookTtlMs", "tradeFetchLimit"} :
         argv[k] # NULL => cfg[k] = argv[k]
    /\ argv.bookHttpFallback # "" => cfg.bookHttpFallback = (argv.bookHttpFallback = "true")

\* C25: with no tuning flag given, --profile turbo yields a refreshDebounceMs
\* and a minAssetRefreshMs strictly smaller, and a maxParallel strictly
\* larger, than profile fast yields, and bookHttpFallback false where fast
\* keeps it true.
C25_TurboTightens ==
  (phase = "new" /\ argv = [NoFlags EXCEPT !.profile = "turbo"]) =>
    LET fast == parseArgs([NoFlags EXCEPT !.profile = "fast"])
    IN /\ cfg.refreshDebounceMs < fast.refreshDebounceMs
       /\ cfg.minAssetRefreshMs < fast.minAssetRefreshMs
       /\ cfg.maxParallel > fast.maxParallel
       /\ cfg.bookHttpFallback = FALSE /\ fast.bookHttpFallback = TRUE

\* ------------------------------------------------ the refresh pipeline, again
\* C26: PendingRefresh is snapshotted and cleared when a pull begins: an asset
\* whose trigger arrives while the pull is in flight is not consumed by that
\* run, and is still in PendingRefresh, with its meta, when the run ends.
C26_FlightTriggerKept ==
  [][/\ (~refreshInFlight /\ refreshInFlight')
          => (pendingAssets' = {} /\ pendingMetaByAsset' = EmptyMap)
     /\ (RefreshFetches # {} /\ ~refreshInFlight' /\ flightTrigger)
          => (pendingAssets' = pendingAssets /\ pendingAssets' # {}
              /\ pendingMetaByAsset' = pendingMetaByAsset)]_vars

\* C27: at most one refresh timeout is pending at any time.  A timeout is
\* made only by a step that starts with this.refreshTimer null, and is due
\* max(0, refreshDebounceMs - (now - lastActivityFetchMs)) after the call; a
\* trigger accepted while a timer is armed adds its asset to pendingAssets,
\* stores its meta if the asset has none, and leaves the timer, the stored
\* metas and the rest of the refresh state as they are.
C27_OneRefreshTimer ==
  /\ [](refreshTimeouts <= 1)
  /\ [][/\ refreshTimeouts' > refreshTimeouts
             => /\ ~refreshTimer.set
                /\ refreshTimer'.set /\ refreshTimer'.live
                /\ refreshTimer'.due =
                     now + Max2(0, cfg.refreshDebounceMs - (now - lastActivityFetchMs))
        /\ (refreshTimer.set /\ refreshTimer.live /\ lastAssetRefreshMs' # lastAssetRefreshMs)
             => /\ refreshTimer' = refreshTimer
                /\ refreshTimeouts' = refreshTimeouts
                /\ \E a \in KnownAssets :
                     /\ pendingAssets' = pendingAssets \cup {a}
                     /\ DOMAIN pendingMetaByAsset' = DOMAIN pendingMetaByAsset \cup {a}
                /\ \A a \in DOMAIN pendingMetaByAsset :
                     pendingMetaByAsset'[a] = pendingMetaByAsset[a]
                /\ UNCHANGED <<refreshInFlight, lastActivityFetchMs, lastActivityItems,
                               fetches, seen, trackedAssets, taskVars>>]_vars

\* A second trigger for an asset was accepted while the timer its first
\* trigger armed was still pending: the first trigger's meta is kept.
C27_TriggerWhileArmed ==
  /\ refreshTimer.set /\ refreshTimer.live /\ refreshTimeouts = 1
  /\ \E a \in DOMAIN pendingMetaByAsset :
       /\ a \in DOMAIN lastAssetRefreshMs
       /\ pendingMetaByAsset[a].recvTs < lastAssetRefreshMs[a]

\* --------------------------------------------------------- the WS handler
\* A paper session on asset A with a cooldown of 2 ticks, before the first
\* reconcile run: last_trade_price events for A and for an asset B the source
\* has not traded yet, book events and refresh pulls.
EventsActivity ==
  <<Item("h1", "A", "BUY", 50, 510, 5, 2000),
    Item("h2", "A", "SELL", 101, 510, 5, 0),
    Item("h3", "B", "BUY", 110, 510, 5, 2000)>>


NextEvents ==
  \/ DoBootstrap
  \/ DoResumeJob
  \/ DoBookJob
  \/ DoSettleJob
  \/ RefreshTimerFire
  \/ DoRefreshFetchDone
  \/ WSOpen
  \/ DoWSBook
  \/ DoWSLastTrade
  \/ Tick

SpecEvents ==
  /\ Constructed({[TurboCfg EXCEPT !.minAssetRefreshMs = 2]}, EventsActivity, {<<500, 520>>}, {})
  /\ [][NextEvents]_vars

\* C28: a step adds an asset to pendingAssets, arms a ws-trigger timer or
\* writes the cooldown map only for an asset that is tracked and whose last
\* accepted trigger is at least minAssetRefreshMs old; the step records the
\* trigger's time and enqueues the asset.  A book event leaves pendingAssets,
\* the metas, the timer, the seen set and the tasks as they are.
C28_TriggerGuards ==
  [][/\ (\/ ~(pendingAssets' \subseteq pendingAssets)
          \/ lastAssetRefreshMs' # lastAssetRefreshMs
          \/ (refreshTimeouts' > refreshTimeouts /\ refreshTimer'.reason = "ws-trigger"))
          => \E a \in KnownAssets :
               /\ a \in trackedAssets
               /\ now - (IF a \in DOMAIN lastAssetRefreshMs
                         THEN lastAssetRefreshMs[a] ELSE 0) >= cfg.minAssetRefreshMs
               /\ lastAssetRefreshMs' =
                    [x \in DOMAIN lastAssetRefreshMs \cup {a} |->
                       IF x = a THEN now ELSE lastAssetRefreshMs[x]]
               /\ pendingAssets' = pendingAssets \cup {a}
     /\ lastBookEvent' # lastBookEvent
          => UNCHANGED <<pendingAssets, pendingMetaByAsset, refreshTimer, refreshTimeouts,
                         lastAssetRefreshMs, seen, taskVars, fetches>>]_vars

\* A second trigger for A was accepted, one cooldown or more after the first
\* (whose refresh dispatched a trade), with A's book cached and B untracked.
C28_SecondTriggerAccepted ==
  /\ "B" \notin trackedAssets
  /\ "A" \in DOMAIN books
  /\ "A" \in DOMAIN lastAssetRefreshMs /\ lastAssetRefreshMs["A"] = now
  /\ "A" \in pendingAssets
  /\ \E i \in DOMAIN tasks : tasks[i].reason = "ws-trigger"

\* ------------------------------------------------------------- the focus
\* A paper session on asset A while the source trades asset B after the
\* start and the feed lists an item that names no asset: one trigger per
\* asset, refresh pulls, the reconcile pull that finds B, the socket closing
\* and SIGINT.
FocusActivity ==
  <<Item("h1", "A", "BUY", 50, 510, 5, 2000),
    Item("h2", "B", "BUY", 101, 510, 5, 2000),
    Item("h3", "", "BUY", 101, 510, 5, 2000)>>

SpecFocus == Constructed({SessionCfg}, FocusActivity, {}, {}) /\ [][NextTracked]_vars

\* C29 as stated: a refresh run whose focusAssets is not empty (the step that
\* empties pendingAssets) hands to Semaphore.run, and inserts into the seen
\* set, no item whose asset is not in focusAssets.
C29_OutOfFocusSkipped ==
  [][(pendingAssets # {} /\ pendingAssets' = {})
       => /\ \A i \in DOMAIN tasks' \ DOMAIN tasks :
               activity[tasks'[i].it].asset \in pendingAssets
          /\ \A k \in seen' \ seen : k[2] \in pendingAssets]_vars

\* C29, for the items that name an asset: a refresh run whose focusAssets is
\* not empty hands to Semaphore.run, and inserts into the seen set, only
\* items whose asset is in focusAssets or that name no asset; an item on
\* another asset is left for a later pull.
C29_NamedOutOfFocusSkipped ==
  [][(pendingAssets # {} /\ pendingAssets' = {})
       => /\ \A i \in DOMAIN tasks' \ DOMAIN tasks :
               activity[tasks'[i].it].asset \in pendingAssets \cup {""}
          /\ \A k \in seen' \ seen : k[2] \in pendingAssets \cup {""}]_vars

\* A refresh pull that resolved before the first reconcile run returned the
\* trade on B, which was not in focus; the reconcile run then dispatched it.
C29_SkippedThenReconciled ==
  /\ lastActivityFetchMs # 0 /\ lastActivityFetchMs < bootAt + ReconcilePeriod
  /\ \E j \in DOMAIN lastActivityItems : activity[lastActivityItems[j]].asset = "B"
  /\ \E i \in DOMAIN tasks :
       activity[tasks[i].it].asset = "B" /\ tasks[i].reason = "reconcile"

\* ------------------------------------------------- pending assets are served
\* The refresh pipeline with pulls that resolve or reject and SIGINT, under
\* the engine's scheduling: the promise jobs run, time passes, a timer that is
\* due fires, and a pull that is attempted again and again resolves.
NextFlush ==
  \/ DoBootstrap
  \/ DoResumeJob
  \/ DoBookJob
  \/ DoSettleJob
  \/ RefreshTimerFire
  \/ DoRefreshFetchDone
  \/ DoRefreshFetchFail
  \/ WSOpen
  \/ DoWSLastTrade
  \/ Stop
  \/ Tick

SpecFlush ==
  /\ Constructed({[TurboCfg EXCEPT !.minAssetRefreshMs = 2]}, RefreshActivity, {}, {})
  /\ [][NextFlush]_vars
  /\ WF_vars(DoResumeJob)
  /\ WF_vars(DoBookJob)
  /\ WF_vars(DoSettleJob)
  /\ WF_vars(Tick)
  /\ WF_vars(RefreshTimerFire)
  /\ SF_vars(DoRefreshFetchDone)

\* C30: while the engine is not stopped, pending assets always have a live
\* refresh timer or a run in flight; an asset leaves pendingAssets only in a
\* step that ends a run with its items (a pull that resolved, or the cache),
\* the run takes every pending asset and leaves each listed item of those
\* assets in the seen set; and a pending asset leads to its removal unless the
\* engine is stopped first or the run of the model ends (the last pull was
\* made, or the timer is due after the clock's last tick).
C30_PendingServed ==
  /\ []((pendingAssets # {} /\ ~stopped)
          => ((refreshTimer.set /\ refreshTimer.live) \/ refreshInFlight))
  /\ [][~(pendingAssets \subseteq pendingAssets')
          => /\ \/ RefreshFetches # {} /\ {f \in fetches' : f.kind = "refresh"} = {}
                \/ /\ refreshTimer.set /\ refreshTimer.live /\ now >= refreshTimer.due
                   /\ ~refreshInFlight /\ UseCache
             /\ pendingAssets' = {}
             /\ ~refreshInFlight'
             /\ \A j \in DOMAIN lastActivityItems' :
                  activity[lastActivityItems'[j]].asset \in pendingAssets
                    => itemKey(activity[lastActivityItems'[j]]) \in seen']_vars
  /\ \A a \in {"A", "B"} :
       (a \in pendingAssets /\ ~stopped)
         ~> \/ a \notin pendingAssets
            \/ stopped
            \/ Len(pulls) = MaxPulls /\ ~refreshInFlight
            \/ refreshTimer.set /\ refreshTimer.live /\ refreshTimer.due > StartMs + MaxTicks

\* A pull rejected with asset A pending, the flush timer made the next pull
\* less than one debounce later, and that pull resolved and took A.
C30_ServedAfterRejectedPull ==
  /\ Len(pulls) = 2
  /\ pulls[2] < pulls[1] + cfg.refreshDebounceMs
  /\ lastActivityFetchMs >= pulls[2]
  /\ "A" \in DOMAIN lastAssetRefreshMs
  /\ pendingAssets = {} /\ ~refreshInFlight /\ ~stopped
  /\ itemKey(activity[2]) \in seen

\* ------------------------------------------------- no second try for a trade
\* C31: the key of every call handed to Semaphore.run is in the seen set,
\* and a trade that a filter rejected or whose live order failed has no
\* other call of processTradeItem for its key.
C31_RejectedNeverRetried ==
  /\ \A i \in DOMAIN tasks : itemKey(activity[tasks[i].it]) \in seen
  /\ \A i \in DOMAIN tasks :
       (tasks[i].out = "rejected" \/ tasks[i].ack = "fail")
         => Invoked(itemKey(activity[tasks[i].it])) \subseteq {i}

\* --------------------------------------------------------------- semaphore
\* Live dispatch through one slot under the engine's scheduling: the promise
\* jobs run and the bridge's child process closes.  Three trades are made
\* after the start and two reconcile pulls find them, the second while an
\* order is awaited.  Orders succeed, fail, or (with --python-bin "") throw
\* when the child is spawned.
SemActivity ==
  <<Item("h1", "A", "BUY", 48, 510, 5, 2000),
    Item("h2", "A", "SELL", 102, 510, 5, 0),
    Item("h3", "A", "BUY", 106, 510, 5, 2000),
    Item("h4", "A", "BUY", 107, 510, 5, 2000)>>

NextSem ==
  \/ DoBootstrap
  \/ DoResumeJob
  \/ DoBookJob
  \/ DoSettleJob
  \/ DoExecDone
  \/ DoExecThrow
  \/ WSOpen
  \/ DoWSBook
  \/ ReconcileTimerFire
  \/ DoReconcileFetchDone
  \/ SessionTick

SpecSem ==
  /\ Constructed({PullsCfg, [PullsCfg EXCEPT !.pythonBin = ""]}, SemActivity, {<<500, 520>>}, {})
  /\ [][NextSem]_vars
  /\ WF_vars(DoResumeJob)
  /\ WF_vars(DoBookJob)
  /\ WF_vars(DoSettleJob)
  /\ WF_vars(DoExecThrow)
  /\ WF_vars(DoExecDone)

\* C32: the active count is never negative; calls start in the order they
\* were made (no call has started while an earlier one waits, and no call is
\* woken before an earlier waiter); a call that ends, by returning or by
\* throwing, gives its slot back and wakes the first waiter; and every
\* waiting call starts.
C32_SemaphoreProgress ==
  /\ [](sem.active >= 0)
  /\ [](\A i \in DOMAIN tasks : \A j \in DOMAIN tasks :
          (i < j /\ tasks[i].pc \in {"queued", "woken"})
            => /\ tasks[j].pc \in {"queued", "woken"}
               /\ tasks[i].pc = "queued" => tasks[j].pc = "queued")
  /\ [][\A i \in DOMAIN tasks :
         (tasks[i].pc # "done" /\ tasks'[i].pc = "done")
           => /\ sem'.active = sem.active - 1
              /\ sem.q # <<>> => /\ tasks'[Head(sem.q)].pc = "woken"
                                 /\ sem'.q = Tail(sem.q)]_vars
  /\ \A i \in 1..(MaxTasks + 1) :
       (i \in DOMAIN tasks /\ tasks[i].pc = "queued")
         ~> (i \in DOMAIN tasks /\ tasks[i].pc \notin {"queued", "woken"})

\* Two calls waited while the first call's order was awaited: the first call
\* has ended and woken the second, which has not resumed yet, and the third
\* still waits.
C32_WaitersStartInOrder ==
  /\ Len(tasks) = 3
  /\ tasks[1].pc = "done" /\ tasks[1].ack \in {"ok", "fail"}
  /\ tasks[2].pc = "woken"
  /\ tasks[3].pc = "queued"
  /\ sem.active = 0 /\ sem.q = <<3>>

\* ------------------------------------------------------ one socket at a time
\* C33: a reconnect timer is pending only while this.ws is closed; the close
\* handler arms it only when none is pending, on the close of a socket that
\* was connecting or open; and connectWS makes a socket only at start, when
\* there is none, or from the reconnect timer that is due, when the previous
\* socket is closed.
C33_OneSocketOneTimer ==
  /\ [](reconnectTimer # 0 => ws = "closed")
  /\ [][/\ (reconnectTimer' # 0 /\ reconnectTimer' # reconnectTimer)
             => /\ reconnectTimer = 0
                /\ ws \in {"connecting", "open"} /\ ws' = "closed"
                /\ sockets' = sockets
        /\ sockets' # sockets
             => /\ sockets' = sockets + 1
                /\ ws' = "connecting"
                /\ \/ sockets = 0 /\ ws = "none" /\ phase = "starting"
                   \/ /\ ws = "closed"
                      /\ reconnectTimer # 0 /\ now >= reconnectTimer
                      /\ reconnectTimer' = 0]_vars

\* The second socket, made by the reconnect timer, has closed in its turn and
\* the second reconnect is pending.
C33_SecondReconnectPending ==
  /\ sockets = 2
  /\ ws = "closed"
  /\ reconnectTimer > StartMs + ReconnectSeconds * SecMs
  /\ ~stopped

\* ------------------------------------------------------- latency samples
\* Paper and live dispatch through one slot, with orders that succeed, fail
\* or throw: a trade older than the bootstrap window, and three that the
\* reconcile pulls find, one without a timestamp, one made after the start
\* and one older than --max-lag-ms allows.
SampleActivity ==
  <<Item("h1", "A", "BUY", 48, 510, 5, 2000),
    Item("h2", "A", "SELL", 0, 510, 5, 2000),
    Item("h3", "A", "BUY", 102, 510, 5, 2000),
    Item("h4", "A", "BUY", 97, 510, 5, 2000)>>

SpecSample ==
  /\ Constructed({PullsCfg, [PullsCfg EXCEPT !.mode = "paper"], [PullsCfg EXCEPT !.pythonBin = ""]},
                 SampleActivity, {<<500, 520>>}, {})
  /\ [][NextSem]_vars

\* The call i of processTradeItem returns, or throws, in this step.
Returns(i) ==
  /\ i \in DOMAIN tasks /\ tasks[i].pc # "settle"
  /\ i \in DOMAIN tasks' /\ tasks'[i].pc = "settle"

\* C34: every step that records a latency sample records one, that of the
\* one call that returns in the step, and that call passed every filter and
\* was dispatched (paper, or a live order that resolved); the sample's
\* ingestMs + decisionMs + submitMs + ackMs is its totalMs, with ingestMs 0
\* and totalMs = ackTs - recvTs when eventTs is unknown; recvTs <= decisionTs
\* <= submitTs <= ackTs; in paper mode submitMs is 0.  A step in which a
\* filtered call returns records nothing.
C34_SampleArithmetic ==
  [][/\ recorded' # recorded =>
          /\ recorded' = recorded + 1
          /\ \E i \in DOMAIN tasks :
               /\ Returns(i)
               /\ \A j \in DOMAIN tasks : Returns(j) => j = i
               /\ tasks'[i].out \in {"paper", "live"}
               /\ tasks'[i].out = "live" => tasks'[i].ack \in {"ok", "fail"}
               /\ LET s == tasks'[i].sample
                  IN /\ s # NoSample
                     /\ s.ingestMs + s.decisionMs + s.submitMs + s.ackMs = s.totalMs
                     /\ s.eventTs = 0 => s.ingestMs = 0 /\ s.totalMs = s.ackTs - s.recvTs
                     /\ s.eventTs # 0 => s.totalMs = s.ackTs - s.eventTs
                     /\ s.recvTs <= s.decisionTs
                     /\ s.decisionTs <= s.submitTs
                     /\ s.submitTs <= s.ackTs
                     /\ PaperMode => s.submitMs = 0
     /\ \A i \in DOMAIN tasks :
          (Returns(i) /\ tasks'[i].out \notin {"paper", "live"})
            => recorded' = recorded /\ tasks'[i].sample = NoSample
     /\ \A i \in DOMAIN tasks :
          (Returns(i) /\ tasks'[i].ack = "threw")
            => recorded' = recorded /\ tasks'[i].sample = NoSample]_vars

\* A live order on a trade without a timestamp has resolved: its call waited
\* for the slot, and the order took time.
C34_LiveSampleNoEventTs ==
  \E i \in DOMAIN tasks :
    /\ tasks[i].pc = "settle" /\ tasks[i].ack \in {"ok", "fail"}
    /\ tasks[i].sample.eventTs = 0
    /\ tasks[i].sample.decisionMs > 0
    /\ tasks[i].sample.ackMs > 0
    /\ tasks[i].sample.totalMs = tasks[i].sample.decisionMs + tasks[i].sample.ackMs
    /\ recorded >= 1

====
